---- MODULE Spec2Model ----
(***************************************************************************)
(* Model of the avatar export pipeline of the repository:                  *)
(*   - GLBExporter (src/js/face-detection.js): createGLBBuffer,            *)
(*     convertToGLB, exportAvatarAsGLB, validateGLB, clearGLBData          *)
(*   - GLBGenerator (src/backend/ai/glb-generator.js): generateGLB,        *)
(*     createAvatarMesh, createAvatarMaterial, createTextureFromData,      *)
(*     exportAsGLB, validateGLB                                            *)
(* Buffers are sequences of bytes (0..255); the first byte of a buffer is  *)
(* element 1 of the sequence, i.e. byte offset k is element k+1.           *)
(***************************************************************************)
EXTENDS Integers, Sequences, FiniteSets, TLC

(***************************************************************************)
(* Bounds of the model.                                                    *)
(***************************************************************************)
\* largest number of members of a glTF document handed to createGLBBuffer
MaxMembers == 3
\* largest byte length of a buffer handed to GLBGenerator.validateGLB
MaxBufLen == 14
\* largest number of vertices of a meshData handed to generateGLB
MaxVerts == 1
\* largest number of applyExpressions calls on one generated mesh
MaxCalls == 2
\* largest number of addAccessories calls on one generated mesh
MaxGroups == 1
\* pixels of the canvas of createSkinTexture
CanvasPixels == 2
\* blemish stamps addSkinDetails draws
MaxStamps == 2
\* analysed images per determineBestStyle call
MaxImages == 4
\* generateFromUploadData calls that may be in progress at once
MaxOverlap == 3

(***************************************************************************)
(* Program constants.                                                      *)
(***************************************************************************)
\* 0x46546C67
GLB_MAGIC == 1179937895
\* 2
GLB_VERSION == 2
\* 0x4E4F534A
CHUNK_JSON == 1313821514
\* ArrayBuffer(12)
HEADER_BYTES == 12
\* ArrayBuffer(8)
CHUNK_HEADER_BYTES == 8

\* a JavaScript reference that is null is the empty sequence, one that holds
\* an object x is <<x>>
NoData == <<>>
Some(x) == <<x>>
NoResult == [outcome |-> "none"]
Thrown == [outcome |-> "thrown"]
Returned(x) == [outcome |-> "returned", value |-> x]

(***************************************************************************)
(* DataView: big-endian uint32 access (littleEndian argument is false).    *)
(***************************************************************************)
\* DataView.setUint32(offset, value, false): the four bytes written, in
\* buffer order.
setUint32(value) ==
    << (value \div 16777216) % 256,
       (value \div 65536) % 256,
       (value \div 256) % 256,
       value % 256 >>

\* the byte order GLTFExporter writes a uint32 in (little-endian)
setUint32LE(value) ==
    << value % 256, (value \div 256) % 256, (value \div 65536) % 256,
       (value \div 16777216) % 256 >>

\* DataView.getUint32(byteOffset, false) throws a RangeError when the four
\* bytes are not inside the buffer.
inBounds(buffer, byteOffset) == byteOffset + 4 <= Len(buffer)

\* DataView.getUint32(byteOffset, false) on a buffer that holds the bytes.
getUint32(buffer, byteOffset) ==
    buffer[byteOffset + 1] * 16777216 + buffer[byteOffset + 2] * 65536
        + buffer[byteOffset + 3] * 256 + buffer[byteOffset + 4]

\* new Uint8Array(n).fill: n bytes of value b
Fill(n, b) == [i \in 1..n |-> b]

(***************************************************************************)
(* glTF documents and their JSON text.  A document is the sequence of its  *)
(* top-level member names; every member is serialised as "name":0.         *)
(***************************************************************************)
\* member names as UTF-8 bytes: "a" and "bc"
MemberNames == { <<97>>, <<98, 99>> }

RECURSIVE SeqsUpTo(_, _)
SeqsUpTo(S, n) ==
    IF n = 0 THEN { <<>> }
    ELSE LET shorter == SeqsUpTo(S, n - 1)
         IN shorter \cup { Append(s, x) : s \in shorter, x \in S }

GltfDocs == SeqsUpTo(MemberNames, MaxMembers)

\* "name":0
Member(name) == <<34>> \o name \o <<34, 58, 48>>

RECURSIVE Members(_)
Members(doc) ==
    IF doc = <<>> THEN <<>>
    ELSE IF Len(doc) = 1 THEN Member(Head(doc))
    ELSE Member(Head(doc)) \o <<44>> \o Members(Tail(doc))

\* new TextEncoder().encode(JSON.stringify(gltfData))
JSONstringify(gltfData) == <<123>> \o Members(gltfData) \o <<125>>

(***************************************************************************)
(* GLBExporter.createGLBBuffer                                             *)
(***************************************************************************)
jsonPaddingOf(jsonBuffer) == (4 - (Len(jsonBuffer) % 4)) % 4

\* new Uint8Array(jsonBuffer.length + jsonPadding); set(jsonBuffer):
\* the bytes after the JSON text keep the typed array's initial value 0.
paddedJson(jsonBuffer) == jsonBuffer \o Fill(jsonPaddingOf(jsonBuffer), 0)

\* createGLBBuffer with the chunk length field taken from the unpadded text
createGLBBuffer_unpaddedLength(gltfData) ==
    LET jsonBuffer == JSONstringify(gltfData)
        paddedJsonBuffer == paddedJson(jsonBuffer)
        header == setUint32(GLB_MAGIC) \o setUint32(GLB_VERSION)
                    \o setUint32(12 + Len(paddedJsonBuffer))
        jsonChunkHeader == setUint32(Len(jsonBuffer)) \o setUint32(CHUNK_JSON)
    IN header \o jsonChunkHeader \o paddedJsonBuffer

createGLBBuffer(gltfData) ==
    LET jsonBuffer == JSONstringify(gltfData)
        paddedJsonBuffer == paddedJson(jsonBuffer)
        header == setUint32(GLB_MAGIC) \o setUint32(GLB_VERSION)
                    \o setUint32(12 + Len(paddedJsonBuffer))
        jsonChunkHeader == setUint32(Len(paddedJsonBuffer)) \o setUint32(CHUNK_JSON)
    IN header \o jsonChunkHeader \o paddedJsonBuffer

\* GLBExporter.convertToGLB
convertToGLB(gltfData) ==
    LET glbBuffer == createGLBBuffer(gltfData)
    IN [buffer |-> glbBuffer, size |-> Len(glbBuffer), format |-> "GLB",
        data |-> gltfData]

(***************************************************************************)
(* validateGLB, in both classes                                            *)
(***************************************************************************)
Invalid(msg) == [valid |-> FALSE, error |-> msg]
Valid(n) == [valid |-> TRUE, size |-> n]

MagicError == "Invalid GLB magic number"
VersionError == "Unsupported GLB version"
LengthError == "Invalid GLB length"
RangeError == "Offset is outside the bounds of the DataView"

\* validateGLB with the version check placed before the magic check
validateGLB_versionFirst(glbBuffer) ==
    IF ~inBounds(glbBuffer, 4) THEN Invalid(RangeError)
    ELSE IF getUint32(glbBuffer, 4) # 2 THEN Invalid(VersionError)
    ELSE IF getUint32(glbBuffer, 0) # GLB_MAGIC THEN Invalid(MagicError)
    ELSE IF ~inBounds(glbBuffer, 8) THEN Invalid(RangeError)
    ELSE IF getUint32(glbBuffer, 8) # Len(glbBuffer) THEN Invalid(LengthError)
    ELSE Valid(Len(glbBuffer))

\* validateGLB comparing only the low three bytes of the magic
validateGLB_shortMagic(glbBuffer) ==
    IF ~inBounds(glbBuffer, 0) THEN Invalid(RangeError)
    ELSE IF getUint32(glbBuffer, 0) % 16777216 # GLB_MAGIC % 16777216
        THEN Invalid(MagicError)
    ELSE IF ~inBounds(glbBuffer, 4) THEN Invalid(RangeError)
    ELSE IF getUint32(glbBuffer, 4) # 2 THEN Invalid(VersionError)
    ELSE IF ~inBounds(glbBuffer, 8) THEN Invalid(RangeError)
    ELSE IF getUint32(glbBuffer, 8) # Len(glbBuffer) THEN Invalid(LengthError)
    ELSE Valid(Len(glbBuffer))

\* validateGLB without its try/catch: a read outside the buffer escapes
validateGLB_uncaught(glbBuffer) ==
    IF ~inBounds(glbBuffer, 0) THEN Thrown
    ELSE IF getUint32(glbBuffer, 0) # GLB_MAGIC THEN Invalid(MagicError)
    ELSE IF ~inBounds(glbBuffer, 4) THEN Thrown
    ELSE IF getUint32(glbBuffer, 4) # 2 THEN Invalid(VersionError)
    ELSE IF ~inBounds(glbBuffer, 8) THEN Thrown
    ELSE IF getUint32(glbBuffer, 8) # Len(glbBuffer) THEN Invalid(LengthError)
    ELSE Valid(Len(glbBuffer))

\* GLBGenerator.validateGLB(glbBuffer)
GLBGenerator_validateGLB(glbBuffer) ==
    IF ~inBounds(glbBuffer, 0) THEN Invalid(RangeError)
    ELSE IF getUint32(glbBuffer, 0) # GLB_MAGIC THEN Invalid(MagicError)
    ELSE IF ~inBounds(glbBuffer, 4) THEN Invalid(RangeError)
    ELSE IF getUint32(glbBuffer, 4) # 2 THEN Invalid(VersionError)
    ELSE IF ~inBounds(glbBuffer, 8) THEN Invalid(RangeError)
    ELSE IF getUint32(glbBuffer, 8) # Len(glbBuffer) THEN Invalid(LengthError)
    ELSE Valid(Len(glbBuffer))

\* GLBExporter.validateGLB(), on this.glbData
GLBExporter_validateGLB(data) ==
    IF data = NoData THEN Invalid("No GLB data")
    ELSE LET buffer == data[1].buffer IN
        IF ~inBounds(buffer, 0) THEN Invalid(RangeError)
        ELSE IF getUint32(buffer, 0) # GLB_MAGIC THEN Invalid(MagicError)
        ELSE IF ~inBounds(buffer, 4) THEN Invalid(RangeError)
        ELSE IF getUint32(buffer, 4) # 2 THEN Invalid(VersionError)
        ELSE IF ~inBounds(buffer, 8) THEN Invalid(RangeError)
        ELSE IF getUint32(buffer, 8) # Len(buffer) THEN Invalid(LengthError)
        ELSE Valid(Len(buffer))

(***************************************************************************)
(* State                                                                   *)
(***************************************************************************)
VARIABLES
    glbData,        \* GLBExporter.glbData
    scene,          \* GLBExporter.scene: null, or the set of its children
    exportReturn,   \* what the last exportAvatarAsGLB call gave its caller
    validation,     \* result of the last GLBExporter.validateGLB() call
    glbBuffer,      \* the buffer a caller hands to GLBGenerator.validateGLB
    checked,        \* result of the last GLBGenerator.validateGLB(glbBuffer)
    corrupted,      \* glbBuffer is an accepted buffer with one magic byte changed
    genScene,       \* GLBGenerator.scene: null, or the set of its children
    avatar,         \* GLBGenerator.avatar: null, or the mesh built last
    genInput,       \* the meshData of the last generateGLB call
    genReturn,      \* what the last generateGLB call gave its caller
    textureFailed,  \* createTextureFromData threw during the last generateGLB call
    faceData,       \* FaceMeshGenerator.faceData: null, or the last input
    geometry,       \* FaceMeshGenerator.geometry: null, or its attribute buffers
    meshReturn,     \* what the last generateFaceMesh call gave its caller
    restPose,       \* the position buffer as generateFaceMesh filled it
    prevPositions,  \* the position buffer before the last applyExpressions call
    lastExpressions,\* the flags of the last applyExpressions call
    calls,          \* applyExpressions calls since the mesh was generated
    serverInput,    \* the landmark array of the last generate3DMesh call
    serverMesh,     \* the mesh ONNXAvatarModel.generate3DMesh returned last
    faceMesh,       \* FaceMeshGenerator.mesh as a scene node: null, or the node
    avatarTree,     \* the group createCompleteAvatar returned last, as returned
    clothingInput,  \* the clothingData of the last createCompleteAvatar call
    material,       \* FaceMeshGenerator.material: null, or its map and color
    noiseDrawn,     \* the Math.random() offsets the last noise pass drew, per pixel
    stampedCanvas,  \* the canvas after the last blemish stamp was drawn
    stampedPixels,  \* the pixels the blemish stamps of the last texture covered
    pc,             \* where each /generate request stands in its handler
    reqMesh,        \* the meshData each request built
    sceneOwner,     \* the request that created the scene this.scene refers to
    exporterInput,  \* the scene each request handed to GLTFExporter.parse
    glbResult,      \* what generateGLB returned to each request
    files,          \* the buffer written to each request's file
    records,        \* the status of each request's Avatar record
    response,       \* the HTTP status each request was answered with
    failedAt,       \* the step of each request that raised
    multiAngleData, \* what processMultipleAngles returned to generateAvatarFromImages
    avatarReturn,   \* outcome of generateAvatarFromImages
    analysedStyles, \* patterns of clothingAnalysis.styles handed to determineBestStyle
    bestStyle,      \* outcome of determineBestStyle
    isGenerating,   \* AvatarGenerator.isGenerating
    generation,     \* where each generateFromUploadData call stands
    detectorReady,  \* faceMeshDetector.isReady()
    notified        \* the notification each call ended with

expVars == << glbData, scene, exportReturn, validation >>
valVars == << glbBuffer, checked, corrupted >>
genVars == << genScene, avatar, genInput, genReturn, textureFailed >>
meshVars == << faceData, geometry, meshReturn, restPose, prevPositions,
              lastExpressions, calls, serverInput, serverMesh >>
sceneVars == << faceMesh, avatarTree, clothingInput >>
texVars == << material, noiseDrawn, stampedCanvas, stampedPixels >>
routeVars == << pc, reqMesh, sceneOwner, exporterInput, glbResult, files, records, response, failedAt >>
pipeVars == << multiAngleData, avatarReturn >>
styleVars == << analysedStyles, bestStyle >>
flagVars == << isGenerating, generation, detectorReady, notified >>
vars == << glbData, scene, exportReturn, validation, glbBuffer, checked, corrupted,
           genScene, avatar, genInput, genReturn, textureFailed,
           faceData, geometry, meshReturn, restPose, prevPositions,
           lastExpressions, calls, serverInput, serverMesh, faceMesh, avatarTree,
           clothingInput,
           material, noiseDrawn, stampedCanvas, stampedPixels,
           pc, reqMesh, sceneOwner, exporterInput, glbResult, files, records, response, failedAt,
           multiAngleData, avatarReturn,
           analysedStyles, bestStyle,
           isGenerating, generation, detectorReady, notified >>

InitExp ==
    /\ glbData = NoData
    /\ scene = NoData
    /\ exportReturn = NoResult
    /\ validation = NoData

\* the validator is not in use
IdleVal ==
    /\ glbBuffer = <<>>
    /\ checked = NoData
    /\ corrupted = FALSE

\* GLBGenerator after its constructor
InitGenerator ==
    /\ genScene = NoData
    /\ avatar = NoData
    /\ genInput = NoData
    /\ genReturn = NoResult
    /\ textureFailed = FALSE

\* FaceMeshGenerator after its constructor; no server mesh built yet
InitMesh ==
    /\ faceData = NoData
    /\ geometry = NoData
    /\ meshReturn = NoResult
    /\ restPose = NoData
    /\ prevPositions = NoData
    /\ lastExpressions = NoData
    /\ calls = 0
    /\ serverInput = NoData
    /\ serverMesh = NoData

\* no scene assembled yet
InitScene ==
    /\ faceMesh = NoData
    /\ avatarTree = NoData
    /\ clothingInput = NoData

\* FaceMeshGenerator after its constructor: no material yet
InitTexture ==
    /\ material = NoData
    /\ noiseDrawn = NoData
    /\ stampedCanvas = NoData
    /\ stampedPixels = {}

\* the two /generate requests that may be in flight together
Requests == { 1, 2 }

\* no request has arrived
InitRoute ==
    /\ pc = [r \in Requests |-> "idle"]
    /\ reqMesh = [r \in Requests |-> NoData]
    /\ sceneOwner = NoData
    /\ exporterInput = [r \in Requests |-> NoData]
    /\ glbResult = [r \in Requests |-> NoData]
    /\ files = [r \in Requests |-> NoData]
    /\ records = [r \in Requests |-> NoData]
    /\ response = [r \in Requests |-> NoData]
    /\ failedAt = [r \in Requests |-> NoData]

\* generateAvatarFromImages has not been called
InitPipeline ==
    /\ multiAngleData = NoData
    /\ avatarReturn = NoResult

\* determineBestStyle has not been called
InitStyle ==
    /\ analysedStyles = NoData
    /\ bestStyle = NoResult

Generations == 1..MaxOverlap

\* the constructor: isGenerating = false, no call made, detector not loaded
InitFlag ==
    /\ isGenerating = FALSE
    /\ generation = [c \in Generations |-> "idle"]
    /\ detectorReady = FALSE
    /\ notified = [c \in Generations |-> NoData]

Init == InitExp /\ IdleVal /\ InitGenerator /\ InitMesh /\ InitScene /\ InitTexture /\ InitRoute /\ InitPipeline /\ InitStyle /\ InitFlag

(***************************************************************************)
(* GLBExporter.exportAvatarAsGLB(avatarMesh, clothingData, metadata).      *)
(* The scene is built, GLTFExporter.parse calls back either with the       *)
(* document or with an error; on success the document is converted, the    *)
(* metadata is attached, the result is stored in this.glbData and returned.*)
(* The method makes no call of validateGLB.                                *)
(***************************************************************************)
ClothingInputs == { "null", "noRecommendations", "recommendations" }
MetadataInputs == { "none", "Sace.io Avatar Creator" }

\* createClothingMesh returns null without recommendations, else a group
sceneOf(clothingData) ==
    Some((IF clothingData = "recommendations" THEN { "clothing" } ELSE {})
            \cup { "avatar", "ambientLight", "directionalLight", "fillLight" })

exportedData(gltfData, metadata) ==
    [buffer |-> convertToGLB(gltfData).buffer,
     size |-> convertToGLB(gltfData).size,
     format |-> convertToGLB(gltfData).format,
     data |-> convertToGLB(gltfData).data,
     metadata |-> [source |-> metadata, version |-> "1.0.0", format |-> "GLB",
                   generator |-> "Sace.io Avatar Creator"]]

ExportAvatarAsGLB(clothingData, gltfData, metadata) ==
    /\ scene' = sceneOf(clothingData)
    /\ glbData' = Some(exportedData(gltfData, metadata))
    /\ exportReturn' = Returned(exportedData(gltfData, metadata))
    /\ validation' = NoData
    /\ UNCHANGED << valVars, genVars, meshVars, sceneVars, texVars, routeVars, pipeVars, styleVars, flagVars >>

\* GLTFExporter.parse reports an error: the promise rejects and the catch
\* block rethrows; this.scene was already replaced, this.glbData is left alone.
ExportAvatarAsGLBFails(clothingData) ==
    /\ scene' = sceneOf(clothingData)
    /\ exportReturn' = Thrown
    /\ UNCHANGED << glbData, validation >>
    /\ UNCHANGED << valVars, genVars, meshVars, sceneVars, texVars, routeVars, pipeVars, styleVars, flagVars >>

\* GLBExporter.validateGLB()
ValidateGLB ==
    /\ validation' = Some(GLBExporter_validateGLB(glbData))
    /\ UNCHANGED << glbData, scene, exportReturn >>
    /\ UNCHANGED << valVars, genVars, meshVars, sceneVars, texVars, routeVars, pipeVars, styleVars, flagVars >>

\* GLBExporter.clearGLBData()
ClearGLBData ==
    /\ glbData' = NoData
    /\ scene' = NoData
    /\ validation' = NoData
    /\ UNCHANGED exportReturn
    /\ UNCHANGED << valVars, genVars, meshVars, sceneVars, texVars, routeVars, pipeVars, styleVars, flagVars >>

Next ==
    \/ \E clothingData \in ClothingInputs, gltfData \in GltfDocs,
          metadata \in MetadataInputs :
            ExportAvatarAsGLB(clothingData, gltfData, metadata)
    \/ \E clothingData \in ClothingInputs : ExportAvatarAsGLBFails(clothingData)
    \/ ValidateGLB
    \/ ClearGLBData

Spec == Init /\ [][Next]_vars

(***************************************************************************)
(* GLBGenerator.validateGLB applied to the buffers a caller can hand it:   *)
(* any byte array, also one that is too short to hold a header.            *)
(***************************************************************************)
\* 0x676C5446: the magic as a little-endian writer stores it, read big-endian
MAGIC_SWAPPED == getUint32(setUint32LE(GLB_MAGIC), 0)
\* 0x02000000: version 2 as a little-endian writer stores it, read big-endian
VERSION_SWAPPED == getUint32(setUint32LE(GLB_VERSION), 0)

MagicInputs == { GLB_MAGIC, MAGIC_SWAPPED, 0 }
VersionInputs == { 2, 1, VERSION_SWAPPED }

\* the first n bytes of a header (magic, version, declared length) followed
\* by zero bytes
MakeBuffer(magic, version, declared, n) ==
    SubSeq(setUint32(magic) \o setUint32(version) \o setUint32(declared)
             \o Fill(MaxBufLen, 0), 1, n)

InputBuffers ==
    { MakeBuffer(m, v, t, n) :
        m \in MagicInputs, v \in VersionInputs, t \in 0..MaxBufLen, n \in 0..MaxBufLen }

\* byte values a corruption writes; the first byte of a uint32 stays below
\* 128 so that the value read stays below 2^31
CorruptValues == { 0, 1, 70, 71, 84, 103, 108, 127 }

InitVal ==
    /\ InitExp
    /\ InitFlag
    /\ InitStyle
    /\ InitPipeline
    /\ InitRoute
    /\ InitTexture
    /\ InitGenerator
    /\ InitMesh
    /\ InitScene
    /\ glbBuffer \in InputBuffers
    /\ checked = NoData
    /\ corrupted = FALSE

\* a caller runs GLBGenerator.validateGLB(glbBuffer)
CheckBuffer ==
    /\ checked' = Some(GLBGenerator_validateGLB(glbBuffer))
    /\ UNCHANGED << glbBuffer, corrupted >>
    /\ UNCHANGED << expVars, genVars, meshVars, sceneVars, texVars, routeVars, pipeVars, styleVars, flagVars >>

\* one byte of the magic field of an accepted buffer is overwritten with a
\* different value
CorruptMagic(i, b) ==
    /\ checked # NoData
    /\ checked[1].valid
    /\ ~corrupted
    /\ glbBuffer[i + 1] # b
    /\ glbBuffer' = [glbBuffer EXCEPT ![i + 1] = b]
    /\ corrupted' = TRUE
    /\ checked' = NoData
    /\ UNCHANGED << expVars, genVars, meshVars, sceneVars, texVars, routeVars, pipeVars, styleVars, flagVars >>

NextVal ==
    \/ CheckBuffer
    \/ \E i \in 0..3, b \in CorruptValues : CorruptMagic(i, b)

SpecVal == InitVal /\ [][NextVal]_vars

(***************************************************************************)
(* Claims about the exporter (specification Spec)                          *)
(***************************************************************************)
\* n rounded up to the next multiple of 4
PaddedLength(n) == ((n + 3) \div 4) * 4

\* the JSON text of the document held in this.glbData
StoredJson == JSONstringify(glbData[1].data)

\* C1: round trip: once validateGLB has run on an exported buffer, its
\* result is valid and its size is the totalLength recorded in the header.
C1_RoundTrip ==
    (glbData # NoData /\ validation # NoData) =>
        /\ validation[1].valid
        /\ validation[1].size = getUint32(glbData[1].buffer, 8)

\* C2: in every emitted buffer the totalLength field equals
\* 12 + (8 + padded JSON length), which is the byte length of the buffer.
C2_TotalLength ==
    glbData # NoData =>
        /\ getUint32(glbData[1].buffer, 8) = 12 + (8 + PaddedLength(Len(StoredJson)))
        /\ getUint32(glbData[1].buffer, 8) = Len(glbData[1].buffer)

\* C3: the first four bytes of every emitted buffer are 'g','l','T','F',
\* followed by the version and totalLength fields of a 12-byte header.
C3_MagicBytes ==
    glbData # NoData =>
        /\ Len(glbData[1].buffer) >= HEADER_BYTES
        /\ SubSeq(glbData[1].buffer, 1, 4) = << 103, 108, 84, 70 >>

\* C4: the chunk at byte offset 12 is a JSON chunk: its type field (read as
\* the program reads uint32 fields) is 0x4E4F534A and its length field is
\* the padded JSON length, a multiple of 4 equal to the number of bytes that
\* follow the 8-byte chunk header.
C4_FirstChunkJson ==
    glbData # NoData =>
        LET buffer == glbData[1].buffer IN
        /\ inBounds(buffer, 12) /\ inBounds(buffer, 16)
        /\ getUint32(buffer, 16) = CHUNK_JSON
        /\ getUint32(buffer, 12) % 4 = 0
        /\ getUint32(buffer, 12) = PaddedLength(Len(StoredJson))
        /\ getUint32(buffer, 12) = Len(buffer) - (HEADER_BYTES + CHUNK_HEADER_BYTES)

\* a buffer was exported whose JSON text needed padding
C4_Witness ==
    /\ glbData # NoData
    /\ exportReturn.outcome = "returned"
    /\ Len(StoredJson) % 4 # 0

\* C5: every byte appended after the JSON text to pad the chunk is 0x20.
C5_JsonPadByte ==
    glbData # NoData =>
        LET buffer == glbData[1].buffer
            first == HEADER_BYTES + CHUNK_HEADER_BYTES + Len(StoredJson) + 1
        IN \A i \in first..Len(buffer) : buffer[i] = 32

(***************************************************************************)
(* Claims about the validator (specification SpecVal)                      *)
(***************************************************************************)
\* C6: the checks run in the order magic, version, length and the first
\* failing one decides the reason: a wrong magic is reported as the magic
\* error whatever the version and length are, a wrong version under a right
\* magic as the version error whatever the length is, and a wrong length is
\* reported only under a right magic and version.
C6_CheckOrder ==
    checked # NoData =>
        /\ (inBounds(glbBuffer, 0) /\ getUint32(glbBuffer, 0) # GLB_MAGIC)
              => checked[1] = Invalid(MagicError)
        /\ (inBounds(glbBuffer, 4) /\ getUint32(glbBuffer, 0) = GLB_MAGIC
                /\ getUint32(glbBuffer, 4) # GLB_VERSION)
              => checked[1] = Invalid(VersionError)
        /\ (inBounds(glbBuffer, 8) /\ getUint32(glbBuffer, 0) = GLB_MAGIC
                /\ getUint32(glbBuffer, 4) = GLB_VERSION
                /\ getUint32(glbBuffer, 8) # Len(glbBuffer))
              => checked[1] = Invalid(LengthError)

\* a buffer with a full header whose magic, version and length are all wrong
\* has been validated
C6_Witness ==
    /\ checked # NoData
    /\ inBounds(glbBuffer, 8)
    /\ getUint32(glbBuffer, 0) # GLB_MAGIC
    /\ getUint32(glbBuffer, 4) # GLB_VERSION
    /\ getUint32(glbBuffer, 8) # Len(glbBuffer)
    /\ checked[1] = Invalid(MagicError)

\* C7: an accepted buffer with one byte of its magic field changed is
\* rejected with the magic-number error.
C7_MagicCorruption ==
    (corrupted /\ checked # NoData) => checked[1] = Invalid(MagicError)

\* an accepted buffer had its last magic byte changed and was validated
C7_Witness ==
    /\ corrupted
    /\ checked # NoData
    /\ inBounds(glbBuffer, 8)
    /\ SubSeq(glbBuffer, 1, 3) = SubSeq(setUint32(GLB_MAGIC), 1, 3)
    /\ getUint32(glbBuffer, 4) = GLB_VERSION
    /\ getUint32(glbBuffer, 8) = Len(glbBuffer)

(***************************************************************************)
(* GLBGenerator.generateGLB(meshData, metadata)                            *)
(***************************************************************************)
\* meshData: the number of vertices and which optional members are present;
\* uvs and faces are always present, as ONNXAvatarModel.generate3DMesh builds
\* them
MeshInputs ==
    [vertices : 0..MaxVerts, normals : BOOLEAN, body : BOOLEAN,
     skinTone : BOOLEAN, skinTexture : BOOLEAN]

\* GLBGenerator.createAvatarMaterial, given the texture createTextureFromData
\* returned
createAvatarMaterial(meshData) ==
    [color |-> IF meshData.skinTone THEN "skinTone" ELSE "200,150,120",
     map |-> IF meshData.skinTexture THEN Some("CanvasTexture") ELSE NoData]

\* GLBGenerator.createAvatarMesh
createAvatarMesh(meshData) ==
    [geometry |-> [position |-> meshData.vertices,
                   uv |-> TRUE,
                   normal |-> IF meshData.normals THEN "given" ELSE "computed",
                   index |-> TRUE],
     material |-> createAvatarMaterial(meshData),
     children |-> IF meshData.body THEN { "body" } ELSE {}]

\* the byte array GLTFExporter.parse calls back with for a binary export: a
\* container with a little-endian header and a payload that grows with the
\* number of vertices
exporterResult(mesh) ==
    LET payload == Fill(4 * mesh.geometry.position, 0)
    IN setUint32LE(GLB_MAGIC) \o setUint32LE(GLB_VERSION)
         \o setUint32LE(HEADER_BYTES + Len(payload)) \o payload

\* GLBGenerator.exportAsGLB: the result copied into a new ArrayBuffer
exportAsGLB(mesh) == [i \in 1..Len(exporterResult(mesh)) |-> exporterResult(mesh)[i]]

generatedScene == Some({ "avatar", "ambientLight", "directionalLight", "fillLight" })

\* generateGLB runs to its return statement
GenerateGLB(meshData, metadata) ==
    /\ genInput' = Some(meshData)
    /\ genScene' = generatedScene
    /\ avatar' = Some(createAvatarMesh(meshData))
    /\ textureFailed' = FALSE
    /\ genReturn' = Returned([buffer |-> exportAsGLB(createAvatarMesh(meshData)),
                              size |-> Len(exportAsGLB(createAvatarMesh(meshData))),
                              metadata |-> [source |-> metadata, format |-> "GLB",
                                            version |-> "2.0"]])
    /\ UNCHANGED << expVars, valVars, meshVars, sceneVars, texVars, routeVars, pipeVars, styleVars, flagVars >>

\* createTextureFromData throws (document is not defined on the server): the
\* exception leaves createAvatarMaterial and createAvatarMesh, reaches the
\* catch block of generateGLB and is rethrown; this.scene is the new empty
\* scene and this.avatar keeps its old value.
GenerateGLBTextureThrows(meshData) ==
    /\ meshData.skinTexture
    /\ genInput' = Some(meshData)
    /\ genScene' = Some({})
    /\ textureFailed' = TRUE
    /\ genReturn' = Thrown
    /\ UNCHANGED avatar
    /\ UNCHANGED << expVars, valVars, meshVars, sceneVars, texVars, routeVars, pipeVars, styleVars, flagVars >>

\* GLTFExporter.parse reports an error: exportAsGLB rejects and generateGLB
\* rethrows after the scene and the avatar were built.
GenerateGLBExportRejects(meshData) ==
    /\ genInput' = Some(meshData)
    /\ genScene' = generatedScene
    /\ avatar' = Some(createAvatarMesh(meshData))
    /\ textureFailed' = FALSE
    /\ genReturn' = Thrown
    /\ UNCHANGED << expVars, valVars, meshVars, sceneVars, texVars, routeVars, pipeVars, styleVars, flagVars >>

\* GLBGenerator.dispose()
Dispose ==
    /\ genScene' = NoData
    /\ avatar' = NoData
    /\ UNCHANGED << genInput, genReturn, textureFailed >>
    /\ UNCHANGED << expVars, valVars, meshVars, sceneVars, texVars, routeVars, pipeVars, styleVars, flagVars >>

NextGen ==
    \/ \E meshData \in MeshInputs, metadata \in MetadataInputs :
            GenerateGLB(meshData, metadata)
    \/ \E meshData \in MeshInputs : GenerateGLBTextureThrows(meshData)
    \/ \E meshData \in MeshInputs : GenerateGLBExportRejects(meshData)
    \/ Dispose

SpecGen == Init /\ [][NextGen]_vars

(***************************************************************************)
(* Claims about the encode operations                                      *)
(***************************************************************************)
\* C8: every buffer an encode operation returns passes validateGLB
\* (specification Spec: GLBExporter.exportAvatarAsGLB).
C8_ReturnedIsValid ==
    exportReturn.outcome = "returned" =>
        GLBExporter_validateGLB(Some(exportReturn.value)).valid

\* C9: generateGLB called with a meshData of zero vertices fails and returns
\* no buffer (specification SpecGen).
C9_ZeroVerticesRefused ==
    (genInput # NoData /\ genInput[1].vertices = 0) => genReturn = Thrown

\* C10: when createTextureFromData throws, generateGLB still returns a
\* buffer that validates and the face material has no map (specification
\* SpecGen).
C10_TextureFailureDegrades ==
    textureFailed =>
        /\ genReturn.outcome = "returned"
        /\ GLBGenerator_validateGLB(genReturn.value.buffer).valid
        /\ avatar # NoData
        /\ avatar[1].material.map = NoData

(***************************************************************************)
(* Landmarks.  Coordinates are fixed-point numbers in hundredths: 100 is   *)
(* 1.0.  The inputs are landmark arrays of several lengths and layouts;    *)
(* every coordinate is even, so that halving it is exact.                  *)
(***************************************************************************)
\* landmarksPerFace
LANDMARKS == 468

LandmarkAt(shape, i) ==
    IF shape = "grid"
        THEN [x |-> 2 * ((i % 26) + 10), y |-> 2 * (2 * (i \div 26) + 5),
              z |-> 2 * (((i * i) % 3) - 1)]
    ELSE IF shape = "sparse"
        THEN [x |-> 2 * ((i * 37) % 51), y |-> 2 * ((i * 23) % 51), z |-> 0]
    ELSE [x |-> 2 * (i % 51), y |-> 2 * (i % 51), z |-> 0]

LandmarkArray(n, shape) == [k \in 1..n |-> LandmarkAt(shape, k - 1)]

LandmarkInputs ==
    { LandmarkArray(LANDMARKS, "grid"), LandmarkArray(100, "sparse"),
      LandmarkArray(62, "grid"), LandmarkArray(12, "sparse"), LandmarkArray(4, "line"),
      LandmarkArray(3, "grid"), LandmarkArray(0, "grid") }

\* faceData: landmarks.front || landmarks.left || landmarks.right is either
\* undefined or a landmark array
FaceDataInputs ==
    { [landmarks |-> NoData] } \cup { [landmarks |-> Some(L)] : L \in LandmarkInputs }

(***************************************************************************)
(* FaceMeshGenerator.createFaceGeometry and createFaceIndices              *)
(***************************************************************************)
createFaceVertices_xyOnly(landmarks) ==
    [p \in 1..(2 * Len(landmarks)) |->
        LET landmark == landmarks[((p - 1) \div 2) + 1]
        IN IF (p - 1) % 2 = 0 THEN (landmark.x - 50) * 2
           ELSE -((landmark.y - 50) * 2)]

\* vertices.push(x, y, z) for every landmark
createFaceVertices(landmarks) ==
    [p \in 1..(3 * Len(landmarks)) |->
        LET landmark == landmarks[((p - 1) \div 3) + 1]
            c == (p - 1) % 3
        IN IF c = 0 THEN (landmark.x - 50) * 2
           ELSE IF c = 1 THEN -((landmark.y - 50) * 2)
           ELSE landmark.z]

\* uvs.push(landmark.x, landmark.y) for every landmark
createFaceUVs(landmarks) ==
    [p \in 1..(2 * Len(landmarks)) |->
        LET landmark == landmarks[((p - 1) \div 2) + 1]
        IN IF (p - 1) % 2 = 0 THEN landmark.x ELSE landmark.y]

faceContour ==
    << 10, 338, 297, 332, 284, 251, 389, 356, 454, 323, 361, 288, 397, 365, 379,
       378, 400, 377, 152, 148, 176, 149, 150, 136, 172, 58, 132, 93, 234, 127,
       162, 21, 54, 103, 67, 109 >>
leftEyebrow == << 70, 63, 105, 66, 107, 55, 65, 52, 53, 46 >>
rightEyebrow == << 296, 334, 293, 300, 276, 283, 282, 295, 285, 336 >>
leftEye ==
    << 33, 7, 163, 144, 145, 153, 154, 155, 133, 173, 157, 158, 159, 160, 161, 246 >>
rightEye ==
    << 362, 382, 381, 380, 374, 373, 390, 249, 263, 466, 388, 387, 386, 385, 384,
       398 >>
nose ==
    << 1, 2, 5, 4, 6, 19, 20, 94, 125, 141, 235, 236, 3, 51, 48, 115, 131, 134,
       102, 49, 220, 305, 281, 360, 279, 331, 294, 358, 327, 326, 2, 97, 98, 129 >>
mouth ==
    << 61, 84, 17, 314, 405, 320, 307, 375, 321, 308, 324, 318, 13, 82, 81, 80,
       78, 95, 88, 178, 87, 14, 317, 402, 318, 324, 308, 415, 310, 311, 312 >>

faceRegions ==
    << faceContour, leftEyebrow, rightEyebrow, leftEye, rightEye, nose, mouth >>

\* the fan of one region: (valid[0], valid[i], valid[i+1]) for i = 1..len-2
regionFan(regionIndices, n) ==
    LET validIndices == SelectSeq(regionIndices, LAMBDA i : i < n)
    IN IF Len(validIndices) >= 3
       THEN [p \in 1..(3 * (Len(validIndices) - 2)) |->
                LET t == ((p - 1) \div 3) + 1
                    c == (p - 1) % 3
                IN IF c = 0 THEN validIndices[1] ELSE validIndices[t + c]]
       ELSE << >>

RECURSIVE regionFans(_, _)
regionFans(regions, n) ==
    IF regions = << >> THEN << >>
    ELSE regionFan(Head(regions), n) \o regionFans(Tail(regions), n)

\* const step = 5
STEP == 5

\* dist < 0.2 for the 2D distance of two landmarks
closeEnough(p1, p2) ==
    (p1.x - p2.x) * (p1.x - p2.x) + (p1.y - p2.y) * (p1.y - p2.y) < 20 * 20

\* FaceMeshGenerator.addGeneralFaceTriangulation: the triples (i, j, j+step)
\* it pushes, in loop order
generalFaceTriangles(landmarks) ==
    LET n == Len(landmarks)
        \* number of loop values 0, step, 2*step, ... below n - step
        count == IF n - STEP <= 0 THEN 0 ELSE ((n - STEP - 1) \div STEP) + 1
        pairs == [q \in 1..(count * count) |->
                    << STEP * ((q - 1) \div count), STEP * ((q - 1) % count) >>]
        pushed(ij) ==
            LET i == ij[1]
                j == ij[2]
                k == j + STEP
            IN /\ j >= i + STEP
               /\ k < n
               /\ closeEnough(landmarks[i + 1], landmarks[j + 1])
               /\ closeEnough(landmarks[j + 1], landmarks[k + 1])
               /\ closeEnough(landmarks[k + 1], landmarks[i + 1])
    IN SelectSeq(pairs, pushed)

addGeneralFaceTriangulation(indices, landmarks) ==
    LET triples == generalFaceTriangles(landmarks)
    IN indices \o [p \in 1..(3 * Len(triples)) |->
                    LET ij == triples[((p - 1) \div 3) + 1]
                        c == (p - 1) % 3
                    IN IF c = 0 THEN ij[1] ELSE IF c = 1 THEN ij[2] ELSE ij[2] + STEP]

\* FaceMeshGenerator.createFaceIndices
createFaceIndices(landmarks) ==
    addGeneralFaceTriangulation(regionFans(faceRegions, Len(landmarks)), landmarks)

\* THREE.BufferGeometry.computeVertexNormals is a library function of the
\* position buffer; its result is kept as the buffer it was computed from.
computeVertexNormals(position) == [computedFrom |-> position]

\* FaceMeshGenerator.createFaceGeometry on an available landmark array
createFaceGeometry(primaryLandmarks) ==
    [position |-> createFaceVertices(primaryLandmarks),
     uv |-> createFaceUVs(primaryLandmarks),
     index |-> createFaceIndices(primaryLandmarks),
     normal |-> computeVertexNormals(createFaceVertices(primaryLandmarks))]

\* the geometry of every input, computed once
GeometryOf == [L \in LandmarkInputs |-> createFaceGeometry(L)]

(***************************************************************************)
(* FaceMeshGenerator.applyExpressions.  Offsets are in hundredths: 0.05 is *)
(* 5.  positions is the geometry's own position array; originalPositions   *)
(* is the copy applyExpressions takes of it on entry.                      *)
(***************************************************************************)
mouthCornerIndices == << 61, 291 >>
eyebrowIndices == leftEyebrow \o rightEyebrow
eyeIndices == leftEye \o rightEye

\* p is the place (from 1) of the Y component of one of the indices
isYOf(p, indices) ==
    /\ (p - 1) % 3 = 1
    /\ \E k \in 1..Len(indices) : p - 1 = indices[k] * 3 + 1

applySmile(positions, originalPositions) ==
    [p \in 1..Len(positions) |->
        IF isYOf(p, mouthCornerIndices) THEN originalPositions[p] + 5 ELSE positions[p]]

applyFrown_additive(positions, originalPositions) ==
    [p \in 1..Len(positions) |->
        IF isYOf(p, mouthCornerIndices) THEN positions[p] - 5 ELSE positions[p]]

applyFrown(positions, originalPositions) ==
    [p \in 1..Len(positions) |->
        IF isYOf(p, mouthCornerIndices) THEN originalPositions[p] - 5 ELSE positions[p]]

applyRaisedEyebrows(positions, originalPositions) ==
    [p \in 1..Len(positions) |->
        IF isYOf(p, eyebrowIndices) THEN originalPositions[p] + 3 ELSE positions[p]]

applySquint_xAxis(positions, originalPositions) ==
    [p \in 1..Len(positions) |->
        IF isYOf(p + 1, eyeIndices) THEN originalPositions[p] - 2 ELSE positions[p]]

applySquint(positions, originalPositions) ==
    [p \in 1..Len(positions) |->
        IF isYOf(p, eyeIndices) THEN originalPositions[p] - 2 ELSE positions[p]]

Expressions(smile, frown, raisedEyebrows, squint) ==
    [smile |-> smile, frown |-> frown, raisedEyebrows |-> raisedEyebrows,
     squint |-> squint]

ExpressionInputs ==
    { Expressions(FALSE, FALSE, FALSE, FALSE), Expressions(TRUE, FALSE, FALSE, FALSE),
      Expressions(FALSE, TRUE, FALSE, FALSE), Expressions(FALSE, FALSE, TRUE, FALSE),
      Expressions(FALSE, FALSE, FALSE, TRUE), Expressions(TRUE, TRUE, FALSE, FALSE),
      Expressions(FALSE, FALSE, TRUE, TRUE) }

\* the position array after the four conditional steps of applyExpressions
deformedPositions(positions, expressions) ==
    LET originalPositions == positions
        afterSmile == IF expressions.smile
                        THEN applySmile(positions, originalPositions) ELSE positions
        afterFrown == IF expressions.frown
                        THEN applyFrown(afterSmile, originalPositions) ELSE afterSmile
        afterBrows == IF expressions.raisedEyebrows
                        THEN applyRaisedEyebrows(afterFrown, originalPositions)
                        ELSE afterFrown
    IN IF expressions.squint
        THEN applySquint(afterBrows, originalPositions) ELSE afterBrows

applyExpressions_staleNormals(g, expressions) ==
    [g EXCEPT !.position = deformedPositions(g.position, expressions)]

\* the geometry after applyExpressions: the position array written in place,
\* then computeVertexNormals
applyExpressions(g, expressions) ==
    LET positions == deformedPositions(g.position, expressions)
    IN [g EXCEPT !.position = positions, !.normal = computeVertexNormals(positions)]

(***************************************************************************)
(* ONNXAvatarModel.generate3DMesh.  Unit normals are fixed-point numbers   *)
(* in thousandths.                                                         *)
(***************************************************************************)
\* for (i = 0; i < numVertices - 2; i += 3) faces.push(i, i + 1, i + 2)
generateFaceTopology(numVertices) ==
    LET count == IF numVertices - 2 <= 0 THEN 0 ELSE ((numVertices - 3) \div 3) + 1
    IN [p \in 1..(3 * count) |-> 3 * ((p - 1) \div 3) + ((p - 1) % 3)]

\* Math.sqrt, rounded down: the largest r in lo..hi with r * r <= n
RECURSIVE sqrtBetween(_, _, _)
sqrtBetween(n, lo, hi) ==
    IF lo >= hi THEN lo
    ELSE LET mid == (lo + hi + 1) \div 2
         IN IF mid * mid <= n THEN sqrtBetween(n, mid, hi)
            ELSE sqrtBetween(n, lo, mid - 1)

sqrt(n) == sqrtBetween(n, 0, IF n < 46340 THEN n ELSE 46340)

\* a / b rounded toward zero
quotient(a, b) == IF a >= 0 THEN a \div b ELSE -((-a) \div b)

\* if (length > 0) divide every component by length
normalize(v, scale) ==
    LET length == sqrt(v[1] * v[1] + v[2] * v[2] + v[3] * v[3])
    IN IF length > 0
        THEN << quotient(v[1] * scale, length), quotient(v[2] * scale, length),
                quotient(v[3] * scale, length) >>
        ELSE v

\* the normalized cross product of the two edges of face f (from 0)
faceNormal(vertices, faces, f) ==
    LET v(c) == [d \in 1..3 |-> vertices[faces[3 * f + c] * 3 + d]]
        edge1 == [d \in 1..3 |-> v(2)[d] - v(1)[d]]
        edge2 == [d \in 1..3 |-> v(3)[d] - v(1)[d]]
    IN normalize(<< edge1[2] * edge2[3] - edge1[3] * edge2[2],
                    edge1[3] * edge2[1] - edge1[1] * edge2[3],
                    edge1[1] * edge2[2] - edge1[2] * edge2[1] >>, 1000)

\* ONNXAvatarModel.calculateNormals
calculateNormals(vertices, faces) ==
    LET faceCount == Len(faces) \div 3
        normalsOfFaces == [g \in 1..faceCount |-> faceNormal(vertices, faces, g - 1)]
        \* every corner of every face adds the face normal to its vertex
        corners(vertex) == { q \in 1..Len(faces) : faces[q] = vertex }
        accumulated(vertex) ==
            LET RECURSIVE add(_, _)
                add(qs, d) ==
                    IF qs = {} THEN 0
                    ELSE LET q == CHOOSE r \in qs : TRUE
                         IN normalsOfFaces[((q - 1) \div 3) + 1][d] + add(qs \ {q}, d)
            IN << add(corners(vertex), 1), add(corners(vertex), 2),
                  add(corners(vertex), 3) >>
        perVertex == [k \in 1..(Len(vertices) \div 3) |->
                        normalize(accumulated(k - 1), 1000)]
    IN [p \in 1..Len(vertices) |-> perVertex[((p - 1) \div 3) + 1][((p - 1) % 3) + 1]]

\* ONNXAvatarModel.generate3DMesh
generate3DMesh(landmarks) ==
    LET vertices == [p \in 1..(3 * Len(landmarks)) |->
                        LET landmark == landmarks[((p - 1) \div 3) + 1]
                            c == (p - 1) % 3
                        IN IF c = 0 THEN landmark.x
                           ELSE IF c = 1 THEN landmark.y ELSE landmark.z]
        uvs == [p \in 1..(2 * Len(landmarks)) |->
                    LET landmark == landmarks[((p - 1) \div 2) + 1]
                    IN IF (p - 1) % 2 = 0 THEN (landmark.x + 100) \div 2
                       ELSE (landmark.y + 100) \div 2]
        faces == generateFaceTopology(Len(landmarks))
    IN [vertices |-> vertices, faces |-> faces, uvs |-> uvs,
        normals |-> calculateNormals(vertices, faces)]

\* the server mesh of every input, computed once
ServerMeshOf == [L \in LandmarkInputs |-> generate3DMesh(L)]

(***************************************************************************)
(* Scene nodes: a THREE.Object3D is its kind, its name and the sequence of *)
(* its children.                                                           *)
(***************************************************************************)
Mesh(name, children) == [type |-> "Mesh", name |-> name, children |-> children]
Group(name, children) == [type |-> "Group", name |-> name, children |-> children]

\* object.add(child)
add(object, child) == [object EXCEPT !.children = Append(@, child)]

(***************************************************************************)
(* The mesh builders as a state machine.  restPose is the position array   *)
(* as generateFaceMesh built it; prevPositions, lastExpressions and calls  *)
(* record the last applyExpressions call on the current mesh.              *)
(***************************************************************************)
\* generateFaceMesh(faceData) with landmarks present
GenerateFaceMesh(fd) ==
    /\ fd.landmarks # NoData
    /\ faceData' = Some(fd)
    /\ geometry' = Some(GeometryOf[fd.landmarks[1]])
    /\ restPose' = Some(GeometryOf[fd.landmarks[1]].position)
    /\ prevPositions' = NoData
    /\ lastExpressions' = NoData
    /\ calls' = 0
    /\ meshReturn' = Returned(Len(GeometryOf[fd.landmarks[1]].position) \div 3)
    /\ faceMesh' = Some(Mesh("faceMesh", << >>))
    /\ UNCHANGED << serverInput, serverMesh, avatarTree, clothingInput >>
    /\ UNCHANGED << expVars, valVars, genVars, texVars, routeVars, pipeVars, styleVars, flagVars >>

\* generateFaceMesh(faceData) without landmarks: createFaceGeometry throws
\* 'No face landmarks available' after this.faceData was assigned
GenerateFaceMeshNoLandmarks(fd) ==
    /\ fd.landmarks = NoData
    /\ faceData' = Some(fd)
    /\ meshReturn' = Thrown
    /\ UNCHANGED << geometry, restPose, prevPositions, lastExpressions, calls,
                    serverInput, serverMesh >>
    /\ UNCHANGED << expVars, valVars, genVars, sceneVars, texVars, routeVars, pipeVars, styleVars, flagVars >>

\* applyExpressions(expressions) on a generated mesh
ApplyExpressions(expressions) ==
    /\ geometry # NoData
    /\ calls < MaxCalls
    /\ geometry' = Some(applyExpressions(geometry[1], expressions))
    /\ prevPositions' = Some(geometry[1].position)
    /\ lastExpressions' = Some(expressions)
    /\ calls' = calls + 1
    /\ UNCHANGED << faceData, meshReturn, restPose, serverInput, serverMesh >>
    /\ UNCHANGED << expVars, valVars, genVars, sceneVars, texVars, routeVars, pipeVars, styleVars, flagVars >>

\* applyExpressions(expressions) before any mesh exists: returns at once
ApplyExpressionsNoMesh(expressions) ==
    /\ geometry = NoData
    /\ lastExpressions' = Some(expressions)
    /\ UNCHANGED << faceData, geometry, meshReturn, restPose, prevPositions, calls,
                    serverInput, serverMesh >>
    /\ UNCHANGED << expVars, valVars, genVars, sceneVars, texVars, routeVars, pipeVars, styleVars, flagVars >>

\* ONNXAvatarModel.generate3DMesh(landmarks)
Generate3DMesh(landmarks) ==
    /\ serverInput' = Some(landmarks)
    /\ serverMesh' = Some(ServerMeshOf[landmarks])
    /\ UNCHANGED << faceData, geometry, meshReturn, restPose, prevPositions,
                    lastExpressions, calls >>
    /\ UNCHANGED << expVars, valVars, genVars, sceneVars, texVars, routeVars, pipeVars, styleVars, flagVars >>

\* the two mesh builders
NextBuild ==
    \/ \E fd \in FaceDataInputs : GenerateFaceMesh(fd)
    \/ \E fd \in FaceDataInputs : GenerateFaceMeshNoLandmarks(fd)
    \/ \E landmarks \in LandmarkInputs : Generate3DMesh(landmarks)

SpecBuild == Init /\ [][NextBuild]_vars

\* the browser mesh and its deformer
NextMesh ==
    \/ \E fd \in FaceDataInputs : GenerateFaceMesh(fd)
    \/ \E fd \in FaceDataInputs : GenerateFaceMeshNoLandmarks(fd)
    \/ \E expressions \in ExpressionInputs : ApplyExpressions(expressions)
    \/ \E expressions \in ExpressionInputs : ApplyExpressionsNoMesh(expressions)

SpecMesh == Init /\ [][NextMesh]_vars

(***************************************************************************)
(* Claims about the mesh builders                                          *)
(***************************************************************************)
\* C11: for a landmark array of length 468 both builders put out 468 * 3
\* vertex components and 468 * 2 UV components, and every face index, of the
\* region fans and of the stride pass alike, is an integer in 0..467
\* (specification SpecBuild).
C11_BufferSizes ==
    /\ (/\ geometry # NoData
        /\ faceData # NoData
        /\ faceData[1].landmarks # NoData
        /\ Len(faceData[1].landmarks[1]) = LANDMARKS)
        => /\ Len(geometry[1].position) = LANDMARKS * 3
           /\ Len(geometry[1].uv) = LANDMARKS * 2
           /\ \A q \in 1..Len(geometry[1].index) :
                geometry[1].index[q] \in 0..(LANDMARKS - 1)
    /\ (serverMesh # NoData /\ Len(serverInput[1]) = LANDMARKS)
        => /\ Len(serverMesh[1].vertices) = LANDMARKS * 3
           /\ Len(serverMesh[1].uvs) = LANDMARKS * 2
           /\ \A q \in 1..Len(serverMesh[1].faces) :
                serverMesh[1].faces[q] \in 0..(LANDMARKS - 1)

\* a state where both builders were given 468 landmarks and the stride pass
\* added triangles to the region fans
C11_Witness ==
    /\ geometry # NoData
    /\ faceData # NoData
    /\ faceData[1].landmarks # NoData
    /\ Len(faceData[1].landmarks[1]) = LANDMARKS
    /\ Len(geometry[1].index) >
        Len(regionFans(faceRegions, LANDMARKS))
    /\ serverMesh # NoData
    /\ Len(serverInput[1]) = LANDMARKS
    /\ Len(serverMesh[1].faces) > 0

\* C12: a landmark array that does not have exactly 468 entries, the empty
\* array included, makes the builder raise an input error, and no mesh is
\* returned for it (specification SpecBuild).
C12_WrongLengthRefused ==
    /\ (/\ faceData # NoData
        /\ faceData[1].landmarks # NoData
        /\ Len(faceData[1].landmarks[1]) # LANDMARKS)
        => meshReturn = Thrown
    /\ serverMesh # NoData => Len(serverInput[1]) = LANDMARKS

\* C13: in both builders the vertex of every landmark (x, y, z) is
\* ((x - 0.5) * 2, -(y - 0.5) * 2, z) and its UV is (x, y), at the landmark's
\* own index (specification SpecBuild).
C13_VertexTransform ==
    /\ (/\ geometry # NoData
        /\ faceData # NoData
        /\ faceData[1].landmarks # NoData)
        => \A k \in 1..Len(faceData[1].landmarks[1]) :
            LET landmark == faceData[1].landmarks[1][k]
            IN /\ geometry[1].position[3 * k - 2] = (landmark.x - 50) * 2
               /\ geometry[1].position[3 * k - 1] = -((landmark.y - 50) * 2)
               /\ geometry[1].position[3 * k] = landmark.z
               /\ geometry[1].uv[2 * k - 1] = landmark.x
               /\ geometry[1].uv[2 * k] = landmark.y
    /\ serverMesh # NoData
        => \A k \in 1..Len(serverInput[1]) :
            LET landmark == serverInput[1][k]
            IN /\ serverMesh[1].vertices[3 * k - 2] = (landmark.x - 50) * 2
               /\ serverMesh[1].vertices[3 * k - 1] = -((landmark.y - 50) * 2)
               /\ serverMesh[1].vertices[3 * k] = landmark.z
               /\ serverMesh[1].uvs[2 * k - 1] = landmark.x
               /\ serverMesh[1].uvs[2 * k] = landmark.y

\* C14: the normals buffer of the server mesh has one 3-vector per vertex and
\* none of them is the zero vector (specification SpecBuild).
C14_NoZeroNormal ==
    serverMesh # NoData
        => /\ Len(serverMesh[1].normals) = Len(serverMesh[1].vertices)
           /\ \A k \in 1..(Len(serverMesh[1].vertices) \div 3) :
                << serverMesh[1].normals[3 * k - 2], serverMesh[1].normals[3 * k - 1],
                   serverMesh[1].normals[3 * k] >> # << 0, 0, 0 >>

(***************************************************************************)
(* Claims about the expression deformer                                    *)
(***************************************************************************)
\* C15: applyExpressions never changes the position buffer of the generated
\* geometry: it holds the rest pose after any call (specification SpecMesh).
C15_BaseBufferKept ==
    geometry # NoData => geometry[1].position = restPose[1]

\* C16: a second applyExpressions call with the same flags as the call
\* before it, on the same mesh, leaves every position as the first call left
\* it (specification SpecMesh).
C16_Idempotent ==
    [][(/\ geometry # NoData
        /\ calls >= 1
        /\ calls' = calls + 1
        /\ lastExpressions' = lastExpressions)
            => geometry'[1].position = geometry[1].position]_vars

\* the places (from 1) of the Y components of vertices 61 and 291 that the
\* position buffer has
mouthCornerYs(positions) ==
    { p \in 1..Len(positions) : isYOf(p, mouthCornerIndices) }

\* C17 as stated: after a call with smile and frown both set, the Y of
\* vertices 61 and 291 is what it was before the call, a net offset of 0.0
\* (specification SpecMesh).
C17_NetZero ==
    (/\ geometry # NoData
     /\ calls >= 1
     /\ lastExpressions[1].smile
     /\ lastExpressions[1].frown)
        => \A p \in mouthCornerYs(geometry[1].position) :
            geometry[1].position[p] = prevPositions[1][p]

\* C17 as the code has it: after a call with smile and frown both set, the Y
\* of vertices 61 and 291 is 0.05 below what it was before the call: the
\* frown step overwrites the smile step (specification SpecMesh).
C17_FrownWins ==
    (/\ geometry # NoData
     /\ calls >= 1
     /\ lastExpressions[1].smile
     /\ lastExpressions[1].frown)
        => \A p \in mouthCornerYs(geometry[1].position) :
            geometry[1].position[p] = prevPositions[1][p] - 5

C17_Witness ==
    /\ geometry # NoData
    /\ calls >= 1
    /\ lastExpressions[1].smile
    /\ lastExpressions[1].frown
    /\ Cardinality(mouthCornerYs(geometry[1].position)) = 2

\* the table offset of one flag at place p of the position buffer
flagOffset(active, p, indices, offset) ==
    IF active /\ isYOf(p, indices) THEN offset ELSE 0

\* C18: a call whose flags do not set smile and frown together changes
\* every position by the sum of the table offsets of the active flags that
\* target it: +0.05 (smile) or -0.05 (frown) on the Y of 61 and 291, +0.03 on
\* the Y of the eyebrow indices, -0.02 on the Y of the eye indices, and nothing
\* anywhere else (specification SpecMesh).
C18_OnlyTableOffsets ==
    (/\ geometry # NoData
     /\ calls >= 1
     /\ ~(lastExpressions[1].smile /\ lastExpressions[1].frown))
        => /\ Len(geometry[1].position) = Len(prevPositions[1])
           /\ \A p \in 1..Len(geometry[1].position) :
                geometry[1].position[p] - prevPositions[1][p] =
                    flagOffset(lastExpressions[1].smile, p, mouthCornerIndices, 5)
                    + flagOffset(lastExpressions[1].frown, p, mouthCornerIndices, -5)
                    + flagOffset(lastExpressions[1].raisedEyebrows, p, eyebrowIndices, 3)
                    + flagOffset(lastExpressions[1].squint, p, eyeIndices, -2)

C18_Witness ==
    /\ geometry # NoData
    /\ calls >= 1
    /\ lastExpressions[1].raisedEyebrows
    /\ lastExpressions[1].squint
    /\ Len(geometry[1].position) = LANDMARKS * 3
    /\ geometry[1].position # prevPositions[1]

\* C19: whenever applyExpressions has returned, the normals of the geometry
\* are the ones computed from the positions it left (specification SpecMesh).
C19_NormalsRecomputed ==
    geometry # NoData
        => geometry[1].normal = computeVertexNormals(geometry[1].position)

C19_Witness ==
    /\ geometry # NoData
    /\ calls >= 1
    /\ geometry[1].position # prevPositions[1]

(***************************************************************************)
(* FaceMeshGenerator.addAccessories and AvatarGenerator.createCompleteAvatar*)
(***************************************************************************)
Accessories(glasses, earrings, hat) ==
    [glasses |-> glasses, earrings |-> earrings, hat |-> hat]

AccessoryInputs ==
    { Accessories(g, e, h) : g \in BOOLEAN, e \in BOOLEAN, h \in BOOLEAN }

createGlasses_framed ==
    Group("glasses",
          << Group("frame", << Mesh("leftLens", << >>), Mesh("rightLens", << >>) >>),
             Mesh("bridge", << >>) >>)

createGlasses ==
    Group("glasses",
          << Mesh("leftLens", << >>), Mesh("rightLens", << >>), Mesh("bridge", << >>) >>)

createEarring(side) == Mesh(side, << >>)

createHat == Mesh("hat", << >>)

\* the accessoriesGroup addAccessories builds
accessoriesGroup(accessories) ==
    Group("accessories",
          (IF accessories.glasses THEN << createGlasses >> ELSE << >>)
          \o (IF accessories.earrings
                THEN << createEarring("leftEarring"), createEarring("rightEarring") >>
                ELSE << >>)
          \o (IF accessories.hat THEN << createHat >> ELSE << >>))

\* clothingData: absent, or recommendations with a style
ClothingStyles == { "minimalist", "preppy", "casual", "classic", "sporty" }
ClothingDataInputs ==
    { NoData } \cup { Some([recommendations |-> [style |-> st]]) : st \in ClothingStyles }

addMinimalistDetails(body) == add(body, Mesh("collar", << >>))

addPreppyDetails(body) ==
    add(add(add(add(body, Mesh("collar", << >>)), Mesh("button", << >>)),
            Mesh("button", << >>)), Mesh("button", << >>))

addCasualDetails(body) ==
    add(add(body, Mesh("leftPocket", << >>)), Mesh("rightPocket", << >>))

addClassicDetails(body) ==
    add(add(body, Mesh("leftLapel", << >>)), Mesh("rightLapel", << >>))

addClothingDetails_fallThrough(body, clothingRecommendations) ==
    IF clothingRecommendations.style = "minimalist"
        THEN addClassicDetails(addCasualDetails(addPreppyDetails(addMinimalistDetails(body))))
    ELSE IF clothingRecommendations.style = "preppy"
        THEN addClassicDetails(addCasualDetails(addPreppyDetails(body)))
    ELSE IF clothingRecommendations.style = "casual"
        THEN addClassicDetails(addCasualDetails(body))
    ELSE IF clothingRecommendations.style = "classic" THEN addClassicDetails(body)
    ELSE body

\* switch (style) without a default case
addClothingDetails(body, clothingRecommendations) ==
    IF clothingRecommendations.style = "minimalist" THEN addMinimalistDetails(body)
    ELSE IF clothingRecommendations.style = "preppy" THEN addPreppyDetails(body)
    ELSE IF clothingRecommendations.style = "casual" THEN addCasualDetails(body)
    ELSE IF clothingRecommendations.style = "classic" THEN addClassicDetails(body)
    ELSE body

createBodyWithClothing(clothingData) ==
    IF clothingData # NoData
        THEN addClothingDetails(Mesh("body", << >>), clothingData[1].recommendations)
        ELSE Mesh("body", << >>)

createHair == Mesh("hair", << >>)

createCompleteAvatar(face, clothingData) ==
    add(add(add(Group("avatar", << >>), face), createBodyWithClothing(clothingData)),
        createHair)

\* the inputs of generateFaceMesh when the scene is assembled
SceneFaceInputs ==
    { [landmarks |-> NoData], [landmarks |-> Some(LandmarkArray(3, "grid"))] }

\* addAccessories(accessories) on a generated mesh; without a mesh it returns
\* at once and changes nothing
AddAccessories(accessories) ==
    /\ faceMesh # NoData
    /\ Len(faceMesh[1].children) < MaxGroups
    /\ faceMesh' = Some(add(faceMesh[1], accessoriesGroup(accessories)))
    /\ UNCHANGED << avatarTree, clothingInput >>
    /\ UNCHANGED << expVars, valVars, genVars, meshVars, texVars, routeVars, pipeVars, styleVars, flagVars >>

\* createCompleteAvatar(faceMesh, clothingData, faceData) with the mesh
\* generateFaceMesh returned
CreateCompleteAvatar(clothingData) ==
    /\ faceMesh # NoData
    /\ avatarTree' = Some(createCompleteAvatar(faceMesh[1], clothingData))
    /\ clothingInput' = Some(clothingData)
    /\ UNCHANGED faceMesh
    /\ UNCHANGED << expVars, valVars, genVars, meshVars, texVars, routeVars, pipeVars, styleVars, flagVars >>

NextScene ==
    \/ \E fd \in SceneFaceInputs : GenerateFaceMesh(fd)
    \/ \E fd \in SceneFaceInputs : GenerateFaceMeshNoLandmarks(fd)
    \/ \E accessories \in AccessoryInputs : AddAccessories(accessories)
    \/ \E clothingData \in ClothingDataInputs : CreateCompleteAvatar(clothingData)

SpecScene == Init /\ [][NextScene]_vars

\* the number of nodes on the longest path from a node down to a leaf
RECURSIVE Depth(_)
Depth(node) ==
    IF node.children = << >> THEN 1
    ELSE 1 + LET depths == { Depth(node.children[k]) : k \in 1..Len(node.children) }
             IN CHOOSE d \in depths : \A e \in depths : e <= d

\* some accessoriesGroup of the face mesh of the avatar has a child
hasAccessory(avatarNode) ==
    \E k \in 1..Len(avatarNode.children[1].children) :
        avatarNode.children[1].children[k].children # << >>

RECURSIVE Leaves(_)
Leaves(node) ==
    IF node.children = << >> THEN { node }
    ELSE UNION { Leaves(node.children[k]) : k \in 1..Len(node.children) }

\* C21: every leaf of the assembled scene tree is a mesh, that is a geometry
\* with a material; no group without children is a leaf
\* (specification SpecScene).
C21_LeavesAreMeshes ==
    avatarTree # NoData => \A leaf \in Leaves(avatarTree[1]) : leaf.type = "Mesh"

\* the decorations each of the four styles puts on a bare body
decorationSet(style) ==
    IF style = "minimalist" THEN << "collar" >>
    ELSE IF style = "preppy" THEN << "collar", "button", "button", "button" >>
    ELSE IF style = "casual" THEN << "leftPocket", "rightPocket" >>
    ELSE IF style = "classic" THEN << "leftLapel", "rightLapel" >>
    ELSE << >>

\* C22: the body of the assembled avatar carries the decorations of the
\* style it was built for and of no other style, all of them meshes without
\* children; a style outside the four, or no clothing data, leaves the body
\* bare (specification SpecScene).
C22_OneDecorationSet ==
    avatarTree # NoData
        => LET body == avatarTree[1].children[2]
               decorations == [k \in 1..Len(body.children) |-> body.children[k].name]
           IN /\ \A k \in 1..Len(body.children) :
                    body.children[k] = Mesh(body.children[k].name, << >>)
              /\ IF clothingInput[1] = NoData THEN decorations = << >>
                 ELSE decorations = decorationSet(clothingInput[1][1].recommendations.style)

C22_Witness ==
    /\ avatarTree # NoData
    /\ clothingInput[1] # NoData
    /\ clothingInput[1][1].recommendations.style = "preppy"
    /\ Len(avatarTree[1].children[2].children) = 4

(***************************************************************************)
(* FaceMeshGenerator.createFaceMaterial, createSkinTexture, addSkinDetails.*)
(* A pixel is << r, g, b, a >>; the canvas and an ImageData are sequences  *)
(* of pixels.  generateFaceMesh assigns the material to this.material,     *)
(* which nothing else of the generator reads; it is kept here as an        *)
(* operation of its own.                                                   *)
(***************************************************************************)
SkinTone(r, g, b) == [r |-> r, g |-> g, b |-> b]

\* faceData.skinTone || { r: 200, g: 150, b: 120 }
defaultSkinTone == SkinTone(200, 150, 120)

SkinToneInputs == { NoData, Some(SkinTone(250, 5, 128)), Some(SkinTone(0, 255, 9)) }

\* (Math.random() - 0.5) * 20, as whole numbers
NoiseValues == { -10, -4, 0, 7 }

\* Math.max(0, Math.min(255, v))
clamp(v) == IF v < 0 THEN 0 ELSE IF v > 255 THEN 255 ELSE v

\* ctx.fillRect(0, 0, 512, 512) with fillStyle rgb(r, g, b)
fillRect(skinTone) ==
    [p \in 1..CanvasPixels |-> << skinTone.r, skinTone.g, skinTone.b, 255 >>]

\* the noise loop: one draw per pixel, added to R, G and B
addNoise(data, draws) ==
    [p \in 1..Len(data) |->
        << clamp(data[p][1] + draws[p][1]), clamp(data[p][2] + draws[p][1]),
           clamp(data[p][3] + draws[p][1]), data[p][4] >>]

\* one fillRect with the radial gradient: the covered pixels take three
\* tenths of rgb(r - 10, g - 10, b - 10)
stamp(canvas, skinTone, covered) ==
    [p \in 1..Len(canvas) |->
        IF p \in covered
            THEN << (7 * canvas[p][1] + 3 * clamp(skinTone.r - 10)) \div 10,
                    (7 * canvas[p][2] + 3 * clamp(skinTone.g - 10)) \div 10,
                    (7 * canvas[p][3] + 3 * clamp(skinTone.b - 10)) \div 10,
                    canvas[p][4] >>
            ELSE canvas[p]]

\* the canvas after the stamps of the loop, first to last
RECURSIVE stampAll(_, _, _)
stampAll(canvas, skinTone, stamps) ==
    IF stamps = << >> THEN canvas
    ELSE stampAll(stamp(canvas, skinTone, Head(stamps)), skinTone, Tail(stamps))

\* addSkinDetails(ctx, skinTone): imageData is read from the canvas, the noise
\* goes into imageData, the stamps go onto the canvas, and putImageData writes
\* imageData over the canvas
addSkinDetails(canvas, skinTone, draws, stamps) ==
    LET imageData == addNoise(canvas, draws)
        stamped == stampAll(canvas, skinTone, stamps)
    IN [canvas |-> imageData, stamped |-> stamped]

\* the runs of Math.random() of one addSkinDetails call
NoiseDraws == [1..CanvasPixels -> { << n >> : n \in NoiseValues }]
StampRuns == [1..MaxStamps -> (SUBSET (1..CanvasPixels)) \ { {} }]

\* createFaceMaterial(faceData)
CreateFaceMaterial(skinToneInput, draws, stamps) ==
    LET skinTone == IF skinToneInput = NoData THEN defaultSkinTone ELSE skinToneInput[1]
        details == addSkinDetails(fillRect(skinTone), skinTone, draws, stamps)
    IN /\ material' = Some([map |-> details.canvas, color |-> skinTone])
       /\ noiseDrawn' = Some(draws)
       /\ stampedCanvas' = Some(details.stamped)
       /\ stampedPixels' = UNION { stamps[k] : k \in 1..Len(stamps) }
       /\ UNCHANGED << expVars, valVars, genVars, meshVars, sceneVars, routeVars, pipeVars, styleVars, flagVars >>

NextTexture ==
    \E skinToneInput \in SkinToneInputs, draws \in NoiseDraws, stamps \in StampRuns :
        CreateFaceMaterial(skinToneInput, draws, stamps)

SpecTexture == Init /\ [][NextTexture]_vars

\* C23: in the noise pass every pixel gets three drawn offsets, one for each
\* of R, G and B, each channel is the clamped sum of the base colour and its
\* own offset, and alpha stays as filled (specification SpecTexture).
C23_PerChannelNoise ==
    material # NoData
        => \A p \in 1..Len(material[1].map) :
            /\ Len(noiseDrawn[1][p]) = 3
            /\ material[1].map[p][1] = clamp(material[1].color.r + noiseDrawn[1][p][1])
            /\ material[1].map[p][2] = clamp(material[1].color.g + noiseDrawn[1][p][2])
            /\ material[1].map[p][3] = clamp(material[1].color.b + noiseDrawn[1][p][3])
            /\ material[1].map[p][4] = 255

\* C24: every pixel a blemish stamp covered has, in the raster of the
\* returned texture, the value the stamping left on the canvas
\* (specification SpecTexture).
C24_StampsKept ==
    material # NoData
        => \A p \in stampedPixels : material[1].map[p] = stampedCanvas[1][p]

(***************************************************************************)
(* router.post('/generate'): the handler of each request, cut at its await *)
(* points.  glbGenerator is the one GLBGenerator of the module; the        *)
(* requests share its scene and avatar fields.                             *)
(***************************************************************************)
\* the meshData the handler hands to generateGLB: a mesh of generate3DMesh
\* with normals, without body and without skinTexture
RouteMeshInputs ==
    { meshData \in MeshInputs :
        meshData.normals /\ ~meshData.body /\ ~meshData.skinTexture }

\* the handler starts: avatarId, image buffers, await validateImages
Receive(r) ==
    /\ pc[r] = "idle"
    /\ pc' = [pc EXCEPT ![r] = "predicting"]
    /\ UNCHANGED << reqMesh, sceneOwner, exporterInput, glbResult, files, records,
                    response, failedAt >>
    /\ UNCHANGED << expVars, valVars, genVars, meshVars, sceneVars, texVars, pipeVars, styleVars, flagVars >>

\* a step of request r raises: control goes to the catch block
raise(r, step) ==
    /\ pc' = [pc EXCEPT ![r] = "caught"]
    /\ failedAt' = [failedAt EXCEPT ![r] = Some(step)]

\* validateImages or onnxModel.predict rejects
PredictFails(r) ==
    /\ pc[r] = "predicting"
    /\ raise(r, "predict")
    /\ UNCHANGED << reqMesh, sceneOwner, exporterInput, glbResult, files, records,
                    response >>
    /\ UNCHANGED << expVars, valVars, genVars, meshVars, sceneVars, texVars, pipeVars, styleVars, flagVars >>

\* predict resolves and extractFacialFeatures or generate3DMesh throws
MeshBuildingFails(r) ==
    /\ pc[r] = "predicting"
    /\ raise(r, "mesh")
    /\ UNCHANGED << reqMesh, sceneOwner, exporterInput, glbResult, files, records,
                    response >>
    /\ UNCHANGED << expVars, valVars, genVars, meshVars, sceneVars, texVars, pipeVars, styleVars, flagVars >>

\* predict resolves; the handler builds meshData and runs generateGLB up to
\* await this.exportAsGLB(): this.scene and this.avatar are assigned and
\* exporter.parse is called with this.scene, all without an await between
StartGenerateGLB(r, meshData) ==
    /\ pc[r] = "predicting"
    /\ pc' = [pc EXCEPT ![r] = "exporting"]
    /\ reqMesh' = [reqMesh EXCEPT ![r] = Some(meshData)]
    /\ genInput' = Some(meshData)
    /\ genScene' = generatedScene
    /\ avatar' = Some(createAvatarMesh(meshData))
    /\ textureFailed' = FALSE
    /\ genReturn' = NoResult
    /\ sceneOwner' = Some(r)
    /\ exporterInput' = [exporterInput EXCEPT ![r] = Some(r)]
    /\ UNCHANGED << glbResult, files, records, response, failedAt >>
    /\ UNCHANGED << expVars, valVars, meshVars, sceneVars, texVars, pipeVars, styleVars, flagVars >>

parsedScene_thisScene(r) == sceneOwner[1]

\* the scene the exporter of request r works on: the one it was called with
parsedScene(r) == exporterInput[r][1]

\* the exporter calls back with the result: exportAsGLB resolves and
\* generateGLB returns { buffer, size, metadata }
ExportResolves(r) ==
    /\ pc[r] = "exporting"
    /\ pc' = [pc EXCEPT ![r] = "saving"]
    /\ LET buffer == exportAsGLB(createAvatarMesh(reqMesh[parsedScene(r)][1]))
       IN /\ glbResult' = [glbResult EXCEPT
                            ![r] = Some([buffer |-> buffer, size |-> Len(buffer)])]
          /\ genReturn' = Returned([buffer |-> buffer, size |-> Len(buffer),
                                    metadata |-> [source |-> "route", format |-> "GLB",
                                                  version |-> "2.0"]])
    /\ UNCHANGED << genScene, avatar, genInput, textureFailed >>
    /\ UNCHANGED << reqMesh, sceneOwner, exporterInput, files, records, response,
                    failedAt >>
    /\ UNCHANGED << expVars, valVars, meshVars, sceneVars, texVars, pipeVars, styleVars, flagVars >>

ExportRejects_swallowed(r) ==
    /\ pc[r] = "exporting"
    /\ pc' = [pc EXCEPT ![r] = "saving"]
    /\ failedAt' = [failedAt EXCEPT ![r] = Some("generateGLB")]
    /\ glbResult' = [glbResult EXCEPT ![r] = Some([buffer |-> << >>, size |-> 0])]
    /\ genReturn' = Thrown
    /\ UNCHANGED << genScene, avatar, genInput, textureFailed >>
    /\ UNCHANGED << reqMesh, sceneOwner, exporterInput, files, records, response >>
    /\ UNCHANGED << expVars, valVars, meshVars, sceneVars, texVars, pipeVars, styleVars, flagVars >>

\* the exporter reports an error: generateGLB rethrows it
ExportRejects(r) ==
    /\ pc[r] = "exporting"
    /\ raise(r, "generateGLB")
    /\ genReturn' = Thrown
    /\ UNCHANGED << genScene, avatar, genInput, textureFailed >>
    /\ UNCHANGED << reqMesh, sceneOwner, exporterInput, glbResult, files, records,
                    response >>
    /\ UNCHANGED << expVars, valVars, meshVars, sceneVars, texVars, pipeVars, styleVars, flagVars >>

\* fs.mkdir and saveGLBToFile(glbResult.buffer, filePath) resolve
FileSaved(r) ==
    /\ pc[r] = "saving"
    /\ pc' = [pc EXCEPT ![r] = "recording"]
    /\ files' = [files EXCEPT ![r] = Some(glbResult[r][1].buffer)]
    /\ UNCHANGED << reqMesh, sceneOwner, exporterInput, glbResult, records, response,
                    failedAt >>
    /\ UNCHANGED << expVars, valVars, genVars, meshVars, sceneVars, texVars, pipeVars, styleVars, flagVars >>

\* fs.mkdir or fs.writeFile rejects
SaveFails(r) ==
    /\ pc[r] = "saving"
    /\ raise(r, "save")
    /\ UNCHANGED << reqMesh, sceneOwner, exporterInput, glbResult, files, records,
                    response >>
    /\ UNCHANGED << expVars, valVars, genVars, meshVars, sceneVars, texVars, pipeVars, styleVars, flagVars >>

\* avatarRecord.save() resolves: the record has status 'completed'
RecordSaved(r) ==
    /\ pc[r] = "recording"
    /\ pc' = [pc EXCEPT ![r] = "auditing"]
    /\ records' = [records EXCEPT ![r] = Some("completed")]
    /\ UNCHANGED << reqMesh, sceneOwner, exporterInput, glbResult, files, response,
                    failedAt >>
    /\ UNCHANGED << expVars, valVars, genVars, meshVars, sceneVars, texVars, pipeVars, styleVars, flagVars >>

\* avatarRecord.save() rejects
RecordFails(r) ==
    /\ pc[r] = "recording"
    /\ raise(r, "record")
    /\ UNCHANGED << reqMesh, sceneOwner, exporterInput, glbResult, files, records,
                    response >>
    /\ UNCHANGED << expVars, valVars, genVars, meshVars, sceneVars, texVars, pipeVars, styleVars, flagVars >>

\* AuditLog.create resolves and res.json({ success: true, ... }) is sent
RespondSuccess(r) ==
    /\ pc[r] = "auditing"
    /\ pc' = [pc EXCEPT ![r] = "done"]
    /\ response' = [response EXCEPT ![r] = Some(200)]
    /\ UNCHANGED << reqMesh, sceneOwner, exporterInput, glbResult, files, records,
                    failedAt >>
    /\ UNCHANGED << expVars, valVars, genVars, meshVars, sceneVars, texVars, pipeVars, styleVars, flagVars >>

\* AuditLog.create of the try block rejects
AuditFails(r) ==
    /\ pc[r] = "auditing"
    /\ raise(r, "audit")
    /\ UNCHANGED << reqMesh, sceneOwner, exporterInput, glbResult, files, records,
                    response >>
    /\ UNCHANGED << expVars, valVars, genVars, meshVars, sceneVars, texVars, pipeVars, styleVars, flagVars >>

\* the catch block: the failure is logged and res.status(500).json is sent
RespondFailure(r) ==
    /\ pc[r] = "caught"
    /\ pc' = [pc EXCEPT ![r] = "done"]
    /\ response' = [response EXCEPT ![r] = Some(500)]
    /\ UNCHANGED << reqMesh, sceneOwner, exporterInput, glbResult, files, records,
                    failedAt >>
    /\ UNCHANGED << expVars, valVars, genVars, meshVars, sceneVars, texVars, pipeVars, styleVars, flagVars >>

NextRoute ==
    \/ \E r \in Requests : Receive(r)
    \/ \E r \in Requests : PredictFails(r)
    \/ \E r \in Requests : MeshBuildingFails(r)
    \/ \E r \in Requests, meshData \in RouteMeshInputs : StartGenerateGLB(r, meshData)
    \/ \E r \in Requests : ExportResolves(r)
    \/ \E r \in Requests : ExportRejects(r)
    \/ \E r \in Requests : FileSaved(r)
    \/ \E r \in Requests : SaveFails(r)
    \/ \E r \in Requests : RecordSaved(r)
    \/ \E r \in Requests : RecordFails(r)
    \/ \E r \in Requests : RespondSuccess(r)
    \/ \E r \in Requests : AuditFails(r)
    \/ \E r \in Requests : RespondFailure(r)

SpecRoute == Init /\ [][NextRoute]_vars

(***************************************************************************)
(* Claims about the /generate route                                        *)
(***************************************************************************)
\* C25: whatever the interleaving of the two requests, the buffer
\* generateGLB returns to a request, and the buffer written to its file, is
\* the export of the mesh that request built; the scene a request's exporter
\* works on is the one that request created, whichever request assigned
\* this.scene last (specification SpecRoute).
C25_RequestsIndependent ==
    \A r \in Requests :
        /\ exporterInput[r] # NoData => exporterInput[r] = Some(r)
        /\ glbResult[r] # NoData
            => glbResult[r][1].buffer = exportAsGLB(createAvatarMesh(reqMesh[r][1]))
        /\ files[r] # NoData
            => files[r][1] = exportAsGLB(createAvatarMesh(reqMesh[r][1]))

\* request 1 got its buffer while this.scene was the scene of request 2,
\* which is still exporting a different mesh
C25_Witness ==
    /\ pc[1] = "saving"
    /\ glbResult[1] # NoData
    /\ pc[2] = "exporting"
    /\ sceneOwner = Some(2)
    /\ reqMesh[1] # reqMesh[2]
    /\ exportAsGLB(createAvatarMesh(reqMesh[1][1]))
        # exportAsGLB(createAvatarMesh(reqMesh[2][1]))

Angles == { "front", "left" }

\* results[angle] = { faceMesh, expressions, ... } for the angles with a face
MultiAngleInputs ==
    LET perAngle == { [landmarks |-> L, expressions |-> e] :
                        L \in { LandmarkArray(LANDMARKS, "grid"), LandmarkArray(62, "grid") },
                        e \in ExpressionInputs }
    IN UNION { [S -> perAngle] : S \in SUBSET Angles }

\* combined.landmarks[angle] = data.faceMesh.landmarks;
\* combined.expressions[angle] = data.expressions
combineFaceData(multiAngle) ==
    [landmarks |-> [angle \in DOMAIN multiAngle |-> multiAngle[angle].landmarks],
     expressions |-> [angle \in DOMAIN multiAngle |-> multiAngle[angle].expressions]]

\* faceData.landmarks.front || faceData.landmarks.left || faceData.landmarks.right
primaryLandmarks(landmarks) ==
    IF "front" \in DOMAIN landmarks THEN Some(landmarks["front"])
    ELSE IF "left" \in DOMAIN landmarks THEN Some(landmarks["left"])
    ELSE IF "right" \in DOMAIN landmarks THEN Some(landmarks["right"])
    ELSE NoData

\* the four conditions of applyExpressions as they read the object they are
\* given: a property the object does not have reads as undefined, which is
\* falsy
flagsRead(expressions) ==
    LET flag(name) == IF name \in DOMAIN expressions THEN expressions[name] ELSE FALSE
    IN Expressions(flag("smile"), flag("frown"), flag("raisedEyebrows"), flag("squint"))

\* generateAvatarFromImages when at least one angle has a face
GenerateAvatarFromImages(multiAngle) ==
    /\ DOMAIN multiAngle # { }
    /\ multiAngleData' = Some(multiAngle)
    /\ LET combinedFaceData == combineFaceData(multiAngle)
           primary == primaryLandmarks(combinedFaceData.landmarks)
       IN avatarReturn' =
            IF primary = NoData THEN Thrown
            ELSE Returned([faceGeometry |->
                            applyExpressions(GeometryOf[primary[1]],
                                             flagsRead(combinedFaceData.expressions))])
    /\ UNCHANGED << expVars, valVars, genVars, meshVars, sceneVars, texVars, routeVars, styleVars, flagVars >>

\* generateAvatarFromImages when no angle has a face: 'No faces detected in
\* uploaded images'
GenerateAvatarFromImagesNoFaces(multiAngle) ==
    /\ DOMAIN multiAngle = { }
    /\ multiAngleData' = Some(multiAngle)
    /\ avatarReturn' = Thrown
    /\ UNCHANGED << expVars, valVars, genVars, meshVars, sceneVars, texVars, routeVars, styleVars, flagVars >>

NextPipeline ==
    \/ \E multiAngle \in MultiAngleInputs : GenerateAvatarFromImages(multiAngle)
    \/ \E multiAngle \in MultiAngleInputs : GenerateAvatarFromImagesNoFaces(multiAngle)

SpecPipeline == Init /\ [][NextPipeline]_vars

\* C27: when generateAvatarFromImages returns an avatar and the expression
\* analysis of the image the geometry is built from gave smile and no frown,
\* the Y coordinates of vertices 61 and 291 of the returned face geometry are
\* 0.05 above those of the undeformed geometry
C27_SmileReachesDeformer ==
    (/\ avatarReturn \notin { NoResult, Thrown }
     /\ "front" \in DOMAIN multiAngleData[1]
     /\ multiAngleData[1]["front"].expressions.smile
     /\ ~ multiAngleData[1]["front"].expressions.frown)
    => LET undeformed == GeometryOf[multiAngleData[1]["front"].landmarks].position
           returned == avatarReturn.value.faceGeometry.position
       IN \A k \in 1..Len(mouthCornerIndices) :
            LET y == 3 * mouthCornerIndices[k] + 2
            IN y <= Len(undeformed) => returned[y] = undeformed[y] + 5

\* a result object of validateGLB: { valid: true, size } or { valid: false, error }
isResultObject(r) ==
    /\ "valid" \in DOMAIN r
    /\ r.valid \in BOOLEAN
    /\ IF r.valid THEN "size" \in DOMAIN r ELSE "error" \in DOMAIN r

\* C28: validateGLB is total: for every buffer, those shorter than the
\* 12-byte header and the empty one included, both validators give a result
\* object rather than throw, and a call of validateGLB leaves the buffer as it
\* was
C28_ValidateTotal ==
    [][/\ isResultObject(GLBGenerator_validateGLB(glbBuffer))
       /\ isResultObject(GLBExporter_validateGLB(Some([buffer |-> glbBuffer])))
       /\ (checked' # NoData /\ checked' # checked)
            => (glbBuffer' = glbBuffer /\ isResultObject(checked'[1]))]_vars

C28_Witness ==
    /\ Len(glbBuffer) < HEADER_BYTES
    /\ checked = Some(Invalid(RangeError))

(***************************************************************************)
(* ClothingDetector.determineBestStyle: one pattern per analysed image     *)
(* (detectClothingStyle), counted by name.  The count of a pattern no      *)
(* image has is undefined, and a comparison with undefined is false.       *)
(***************************************************************************)
Patterns == { "striped", "polka_dot", "plaid", "solid" }

PatternInputs == SeqsUpTo(Patterns, MaxImages)

\* patterns.reduce((acc, pattern) => { acc[pattern] = (acc[pattern] || 0) + 1 }, {})
patternCounts(patterns) ==
    [pattern \in { patterns[k] : k \in 1..Len(patterns) } |->
        Cardinality({ k \in 1..Len(patterns) : patterns[k] = pattern })]

\* a > b on two properties of patternCounts
greater(counts, a, b) == a \in DOMAIN counts /\ b \in DOMAIN counts /\ counts[a] > counts[b]

\* a > 0 on a property of patternCounts
positive(counts, a) == a \in DOMAIN counts /\ counts[a] > 0

determineBestStyle(patterns) ==
    LET counts == patternCounts(patterns)
    IN IF greater(counts, "solid", "striped") /\ greater(counts, "solid", "plaid")
            THEN "minimalist"
        ELSE IF positive(counts, "striped") THEN "preppy"
        ELSE IF positive(counts, "plaid") THEN "casual"
        ELSE "classic"

\* recommendations.style = this.determineBestStyle(clothingAnalysis)
DetermineBestStyle(patterns) ==
    /\ analysedStyles' = Some(patterns)
    /\ bestStyle' = Returned(determineBestStyle(patterns))
    /\ UNCHANGED << expVars, valVars, genVars, meshVars, sceneVars, texVars, routeVars, pipeVars, flagVars >>

NextStyle == \E patterns \in PatternInputs : DetermineBestStyle(patterns)

SpecStyle == Init /\ [][NextStyle]_vars

\* the number of analysed images with the given pattern
imagesWith(pattern) ==
    Cardinality({ k \in 1..Len(analysedStyles[1]) : analysedStyles[1][k] = pattern })

\* C30: determineBestStyle returns one of minimalist, preppy, casual and
\* classic, and it returns minimalist whenever the solid images strictly
\* outnumber the striped ones and the plaid ones, also when no image is
\* striped or plaid
C30_MinimalistWhenSolidLeads ==
    bestStyle # NoResult =>
        /\ bestStyle.value \in { "minimalist", "preppy", "casual", "classic" }
        /\ (imagesWith("solid") > imagesWith("striped")
                /\ imagesWith("solid") > imagesWith("plaid"))
            => bestStyle.value = "minimalist"

(***************************************************************************)
(* AvatarGenerator.generateFromUploadData, cut at its awaits.  The call is *)
(* started without await by the upload page, so a second call can start    *)
(* while the first is suspended.  isGenerating is set on entry and cleared *)
(* in the finally block.                                                   *)
(***************************************************************************)
\* catch and finally: 'Failed to generate avatar: ' + error.message is
\* shown, isGenerating = false
endWithError(c, message) ==
    /\ generation' = [generation EXCEPT ![c] = "finished"]
    /\ notified' = [notified EXCEPT ![c] = Some(message)]
    /\ isGenerating' = FALSE

\* entry up to the first await; without upload data the call throws, is
\* caught and ends in the same run
StartGeneration(c, hasUploadData) ==
    /\ generation[c] = "idle"
    /\ IF ~hasUploadData THEN endWithError(c, "No upload data found")
       ELSE /\ isGenerating' = TRUE
            /\ generation' = [generation EXCEPT ![c] =
                    IF detectorReady THEN "validating" ELSE "initializing"]
            /\ UNCHANGED notified
    /\ UNCHANGED detectorReady
    /\ UNCHANGED << expVars, valVars, genVars, meshVars, sceneVars, texVars, routeVars,
                    pipeVars, styleVars >>

\* await this.faceMeshDetector.initialize() resolves
DetectorInitialized(c) ==
    /\ generation[c] = "initializing"
    /\ detectorReady' = TRUE
    /\ generation' = [generation EXCEPT ![c] = "validating"]
    /\ UNCHANGED << isGenerating, notified >>
    /\ UNCHANGED << expVars, valVars, genVars, meshVars, sceneVars, texVars, routeVars,
                    pipeVars, styleVars >>

\* await this.validateImages(...) resolves; with no valid image the call
\* throws 'No valid faces detected in uploaded images'
ImagesValidated(c, anyValid) ==
    /\ generation[c] = "validating"
    /\ IF anyValid
        THEN /\ generation' = [generation EXCEPT ![c] = "generating"]
             /\ UNCHANGED << isGenerating, notified >>
        ELSE endWithError(c, "No valid faces detected in uploaded images")
    /\ UNCHANGED detectorReady
    /\ UNCHANGED << expVars, valVars, genVars, meshVars, sceneVars, texVars, routeVars,
                    pipeVars, styleVars >>

\* await this.generateAvatarFromImages(...) resolves: the avatar is shown,
\* then finally
AvatarGenerated(c) ==
    /\ generation[c] = "generating"
    /\ generation' = [generation EXCEPT ![c] = "finished"]
    /\ notified' = [notified EXCEPT ![c] = Some("Real 3D avatar generated successfully!")]
    /\ isGenerating' = FALSE
    /\ UNCHANGED detectorReady
    /\ UNCHANGED << expVars, valVars, genVars, meshVars, sceneVars, texVars, routeVars,
                    pipeVars, styleVars >>

\* initialize() or generateAvatarFromImages() rejects
AwaitRejects(c) ==
    /\ generation[c] \in { "initializing", "generating" }
    /\ endWithError(c, "rejected")
    /\ UNCHANGED detectorReady
    /\ UNCHANGED << expVars, valVars, genVars, meshVars, sceneVars, texVars, routeVars,
                    pipeVars, styleVars >>

NextFlag ==
    \/ \E c \in Generations, hasUploadData \in BOOLEAN : StartGeneration(c, hasUploadData)
    \/ \E c \in Generations : DetectorInitialized(c)
    \/ \E c \in Generations, anyValid \in BOOLEAN : ImagesValidated(c, anyValid)
    \/ \E c \in Generations : AvatarGenerated(c)
    \/ \E c \in Generations : AwaitRejects(c)

SpecFlag == Init /\ [][NextFlag]_vars

\* C29: isGenerating is true exactly while a generateFromUploadData call is
\* in progress: false once every call has ended, and true as long as any of
\* several overlapping calls is still suspended at an await
C29_FlagTracksCalls ==
    isGenerating <=>
        \E c \in Generations : generation[c] \in { "initializing", "validating", "generating" }

====
